---- MODULE Spec2Model ----
(***************************************************************************)
(* SigilWire: emoji encode/decode (hex-nibble and base-64 schemes), its    *)
(* scheme detectors, the command line front end and the GUI front end.     *)
(*                                                                         *)
(* Text is a sequence of Unicode codepoints (Python str), bytes are a      *)
(* sequence of 0..255, a symbol is a non-empty sequence of codepoints.     *)
(***************************************************************************)
EXTENDS Integers, Sequences, FiniteSets, TLC

(***************************************************************************)
(* Bounds of the explored inputs.                                          *)
(***************************************************************************)
MaxTextLen == 3      \* codepoints in a text handed to an encoder
MaxStreamLen == 4    \* units (symbols, whitespace, stray codepoints) in a decoder input
MaxInsert == 1       \* whitespace codepoints inserted into a decoded stream
MaxAppLen == 2       \* codepoints typed / piped into the front ends
MaxSwaps == 1        \* presses of the GUI's Swap button
MaxPaneLen == 6      \* codepoints of GUI input that Run and Auto-Detect are tried on

(***************************************************************************)
(* Alphabets (module level tables of the program).                         *)
(***************************************************************************)
HEX_EMOJI_16 ==
  << <<128512>>, <<128513>>, <<128514>>, <<128515>>, <<128516>>, <<128517>>,
     <<128518>>, <<128521>>, <<128522>>, <<128578>>, <<128579>>, <<128523>>,
     <<128526>>, <<128525>>, <<128536>>, <<128535>> >>

\* f"{i:x}" : the lower case hex digit of i, as its ASCII code
HexDigit(i) == IF i < 10 THEN 48 + i ELSE 87 + i

HexDigits == { HexDigit(i) : i \in 0..15 }

HexValue(d) == CHOOSE i \in 0..15 : HexDigit(i) = d

HEX_MAP == [ d \in HexDigits |-> HEX_EMOJI_16[HexValue(d) + 1] ]

REV_HEX_MAP_Shifted ==
  [ e \in { HEX_MAP[d] : d \in HexDigits } |->
      HexDigit((HexValue(CHOOSE d \in HexDigits : HEX_MAP[d] = e) + 1) % 16) ]

\* {v: k for k, v in HEX_MAP.items()} : on a repeated value the last key wins
REV_HEX_MAP ==
  [ e \in { HEX_MAP[d] : d \in HexDigits } |->
      HexDigit(CHOOSE i \in 0..15 :
                 /\ HEX_MAP[HexDigit(i)] = e
                 /\ \A j \in 0..15 : HEX_MAP[HexDigit(j)] = e => j <= i) ]

BASE64_EMOJI_64 ==
  << <<128512>>, <<128513>>, <<128514>>, <<128515>>, <<128516>>, <<128517>>, <<128518>>, <<128521>>,
     <<128522>>, <<128578>>, <<128579>>, <<128523>>, <<128526>>, <<128525>>, <<128536>>, <<128535>>,
     <<128537>>, <<128538>>, <<129392>>, <<129321>>, <<129303>>, <<129300>>, <<129320>>, <<128528>>,
     <<128529>>, <<128566>>, <<128580>>, <<128527>>, <<128547>>, <<128549>>, <<128558>>, <<129296>>,
     <<128554>>, <<128555>>, <<129393>>, <<128564>>, <<128524>>, <<128539>>, <<128540>>, <<129322>>,
     <<128541>>, <<129303>>, <<129325>>, <<129323>>, <<129317>>, <<128556>>, <<128532>>, <<128533>>,
     <<128577>>, <<9785, 65039>>, <<128543>>, <<128548>>, <<128546>>, <<128557>>, <<128561>>, <<128552>>,
     <<128560>>, <<128559>>, <<128562>>, <<129327>>, <<128564>>, <<128524>>, <<128520>>, <<128123>> >>

PADDING_EMOJI == <<128998>>

\* "ABCDEFGHIJKLMNOPQRSTUVWXYZabcdefghijklmnopqrstuvwxyz0123456789+/" as ASCII codes
B64_STD ==
  [ i \in 1..64 |->
      IF i <= 26 THEN 64 + i
      ELSE IF i <= 52 THEN 96 + (i - 26)
      ELSE IF i <= 62 THEN 47 + (i - 52)
      ELSE IF i = 63 THEN 43 ELSE 47 ]

B64Chars == { B64_STD[i] : i \in 1..64 }

EqualsSign == 61

B64_TO_EMOJI ==
  [ c \in B64Chars |-> BASE64_EMOJI_64[CHOOSE i \in 1..64 : B64_STD[i] = c] ]

\* {BASE64_EMOJI_64[i]: B64_STD[i] for i in range(64)} : a glyph that occurs
\* at several positions keeps the character of its last position
EMOJI_TO_B64 ==
  [ e \in { BASE64_EMOJI_64[i] : i \in 1..64 } |->
      B64_STD[CHOOSE i \in 1..64 :
                /\ BASE64_EMOJI_64[i] = e
                /\ \A j \in 1..64 : BASE64_EMOJI_64[j] = e => j <= i] ]

(***************************************************************************)
(* Library functions the codec calls, computed as CPython computes them.   *)
(* A call either returns a value (exc = "") or raises (exc = the message). *)
(***************************************************************************)
Returned(v) == [exc |-> "", val |-> v]

Raised(e) == [exc |-> e, val |-> <<>>]

IsSpaceAsciiBlank(cp) == cp = 32

\* str.isspace() of a one-codepoint string
IsSpace(cp) ==
  \/ cp \in 9..13
  \/ cp \in 28..32
  \/ cp \in {133, 160, 5760, 8232, 8233, 8239, 8287, 12288}
  \/ cp \in 8192..8202

IsSurrogate(cp) == cp >= 55296 /\ cp <= 57343

Utf8Char(cp) ==
  IF cp < 128 THEN <<cp>>
  ELSE IF cp < 2048 THEN <<192 + (cp \div 64), 128 + (cp % 64)>>
  ELSE IF cp < 65536
    THEN <<224 + (cp \div 4096), 128 + ((cp \div 64) % 64), 128 + (cp % 64)>>
  ELSE <<240 + (cp \div 262144), 128 + ((cp \div 4096) % 64),
         128 + ((cp \div 64) % 64), 128 + (cp % 64)>>

RECURSIVE Utf8Bytes(_, _)
Utf8Bytes(text, i) ==
  IF i > Len(text) THEN <<>> ELSE Utf8Char(text[i]) \o Utf8Bytes(text, i + 1)

\* text.encode("utf-8")
StrEncode(text) ==
  IF \E i \in 1..Len(text) : IsSurrogate(text[i])
  THEN Raised("'utf-8' codec can't encode character: surrogates not allowed")
  ELSE Returned(Utf8Bytes(text, 1))

\* number of bytes of the UTF-8 sequence a lead byte opens, 0 for no lead byte
Utf8SeqLen(b0) ==
  IF b0 < 128 THEN 1
  ELSE IF b0 >= 194 /\ b0 <= 223 THEN 2
  ELSE IF b0 >= 224 /\ b0 <= 239 THEN 3
  ELSE IF b0 >= 240 /\ b0 <= 244 THEN 4
  ELSE 0

\* the values the byte after lead byte b0 may take
Utf8SecondOk(b0, b1) ==
  IF b0 = 224 THEN b1 >= 160 /\ b1 <= 191
  ELSE IF b0 = 237 THEN b1 >= 128 /\ b1 <= 159
  ELSE IF b0 = 240 THEN b1 >= 144 /\ b1 <= 191
  ELSE IF b0 = 244 THEN b1 >= 128 /\ b1 <= 143
  ELSE b1 >= 128 /\ b1 <= 191

Utf8Cont(b) == b >= 128 /\ b <= 191

RECURSIVE Utf8Decode(_, _, _)
Utf8Decode(raw, i, out) ==
  IF i > Len(raw) THEN Returned(out)
  ELSE
    LET b0 == raw[i]
        n == Utf8SeqLen(b0)
        have == IF Len(raw) - i + 1 < n THEN Len(raw) - i + 1 ELSE n
        contOk == \A k \in 1..(have - 1) :
                    IF k = 1 THEN Utf8SecondOk(b0, raw[i + 1]) ELSE Utf8Cont(raw[i + k])
    IN IF n = 0 THEN Raised("'utf-8' codec can't decode byte: invalid start byte")
       ELSE IF ~contOk
         THEN Raised("'utf-8' codec can't decode byte: invalid continuation byte")
       ELSE IF have < n
         THEN Raised("'utf-8' codec can't decode byte: unexpected end of data")
       ELSE
         LET cp == IF n = 1 THEN b0
                   ELSE IF n = 2 THEN (b0 - 192) * 64 + (raw[i + 1] - 128)
                   ELSE IF n = 3
                     THEN (b0 - 224) * 4096 + (raw[i + 1] - 128) * 64 + (raw[i + 2] - 128)
                   ELSE (b0 - 240) * 262144 + (raw[i + 1] - 128) * 4096
                          + (raw[i + 2] - 128) * 64 + (raw[i + 3] - 128)
         IN Utf8Decode(raw, i + n, Append(out, cp))

\* raw.decode("utf-8", errors="strict")
BytesDecode(raw) == Utf8Decode(raw, 1, <<>>)

RECURSIVE BytesHexLowFirst(_)
BytesHexLowFirst(raw) ==
  IF raw = <<>> THEN <<>>
  ELSE <<HexDigit(Head(raw) % 16), HexDigit(Head(raw) \div 16)>> \o BytesHexLowFirst(Tail(raw))

\* raw.hex() : two lower case hex digits per byte, high nibble first
RECURSIVE BytesHex(_)
BytesHex(raw) ==
  IF raw = <<>> THEN <<>>
  ELSE <<HexDigit(Head(raw) \div 16), HexDigit(Head(raw) % 16)>> \o BytesHex(Tail(raw))

\* bytes.fromhex(hexstr) for a string of hex digits
BytesFromHex(hexstr) ==
  IF Len(hexstr) % 2 # 0
  THEN Raised("non-hexadecimal number found in fromhex() arg")
  ELSE Returned([ k \in 1..(Len(hexstr) \div 2) |->
                    16 * HexValue(hexstr[2 * k - 1]) + HexValue(hexstr[2 * k]) ])

\* base64.b64encode(raw).decode("ascii")
RECURSIVE B64Encode(_)
B64Encode(raw) ==
  IF raw = <<>> THEN <<>>
  ELSE IF Len(raw) = 1
    THEN <<B64_STD[(raw[1] \div 4) + 1], B64_STD[((raw[1] % 4) * 16) + 1],
           EqualsSign, EqualsSign>>
  ELSE IF Len(raw) = 2
    THEN <<B64_STD[(raw[1] \div 4) + 1],
           B64_STD[((raw[1] % 4) * 16 + (raw[2] \div 16)) + 1],
           B64_STD[((raw[2] % 16) * 4) + 1], EqualsSign>>
  ELSE <<B64_STD[(raw[1] \div 4) + 1],
         B64_STD[((raw[1] % 4) * 16 + (raw[2] \div 16)) + 1],
         B64_STD[((raw[2] % 16) * 4 + (raw[3] \div 64)) + 1],
         B64_STD[(raw[3] % 64) + 1]>> \o B64Encode(SubSeq(raw, 4, Len(raw)))

B64Value(c) == (CHOOSE i \in 1..64 : B64_STD[i] = c) - 1

\* binascii.a2b_base64(s, strict_mode=True), the loop over the characters:
\* q = quad_pos, left = leftchar, pads, started = padding_started
RECURSIVE A2bLoop(_, _, _, _, _, _, _)
A2bLoop(s, i, q, left, pads, started, out) ==
  IF i > Len(s)
  THEN IF q = 0 THEN Returned(out)
       ELSE IF q = 1
         THEN Raised("Invalid base64-encoded string: number of data characters cannot be 1 more than a multiple of 4")
       ELSE Raised("Incorrect padding")
  ELSE IF s[i] = EqualsSign
    THEN IF q >= 2 /\ q + pads + 1 >= 4
         THEN IF i < Len(s) THEN Raised("Excess data after padding") ELSE Returned(out)
         ELSE A2bLoop(s, i + 1, q, left, IF q >= 2 THEN pads + 1 ELSE pads, TRUE, out)
  ELSE IF s[i] \notin B64Chars THEN Raised("Only base64 data is allowed")
  ELSE IF started THEN Raised("Discontinuous padding not allowed")
  ELSE
    LET v == B64Value(s[i])
    IN IF q = 0 THEN A2bLoop(s, i + 1, 1, v, 0, started, out)
       ELSE IF q = 1
         THEN A2bLoop(s, i + 1, 2, v % 16, 0, started, Append(out, left * 4 + (v \div 16)))
       ELSE IF q = 2
         THEN A2bLoop(s, i + 1, 3, v % 4, 0, started, Append(out, left * 16 + (v \div 4)))
       ELSE A2bLoop(s, i + 1, 0, 0, 0, started, Append(out, left * 64 + v))

\* base64.b64decode(b64, validate=True)
B64Decode(s) ==
  IF Len(s) > 0 /\ s[1] = EqualsSign THEN Raised("Leading padding not allowed")
  ELSE A2bLoop(s, 1, 0, 0, 0, FALSE, <<>>)

(***************************************************************************)
(* Core codec.  A call of a codec function ends by returning a CodecResult *)
(* (kind = "return") or by an exception leaving it (kind = "raise").       *)
(* An error message is kept in parts: the literal text of the program, the *)
(* message of the exception it formats (cause) and the codepoints whose    *)
(* repr() it formats (ch).                                                 *)
(***************************************************************************)
Message(text, cause, ch) == [text |-> text, cause |-> cause, ch |-> ch]

NoMessage == Message("", "", <<>>)

CodecResult(ok, data, error) ==
  [kind |-> "return", ok |-> ok, data |-> data, error |-> error]

\* an exception leaving a codec function: the outcome the handlers exclude
Propagate(e) ==
  [kind |-> "raise", ok |-> FALSE, data |-> <<>>, error |-> Message("", e, <<>>)]

\* except Exception as e: return CodecResult(False, "", str(e))
Except(e) == CodecResult(FALSE, <<>>, Message("", e, <<>>))

\* except (binascii.Error, Exception) as e:
\*     return CodecResult(False, "", f"Base64 decode error: {e}")
ExceptB64(e) == CodecResult(FALSE, <<>>, Message("Base64 decode error: ", e, <<>>))

\* "".join(parts) for a sequence of strings
RECURSIVE Join(_)
Join(parts) == IF parts = <<>> THEN <<>> ELSE Head(parts) \o Join(Tail(parts))

encode_hex_emoji(text) ==
  LET raw == StrEncode(text)
  IN IF raw.exc # "" THEN Except(raw.exc)
     ELSE LET hexstr == BytesHex(raw.val)
          IN CodecResult(TRUE, Join([ k \in 1..Len(hexstr) |-> HEX_MAP[hexstr[k]] ]), NoMessage)

UnknownHexKeepsPartial(ch, nibbles) ==
  CodecResult(FALSE, nibbles, Message("Unknown emoji in hex stream: ", "", ch))

\* the return on an unknown, non-whitespace codepoint of the hex stream
UnknownHex(ch, nibbles) ==
  CodecResult(FALSE, <<>>, Message("Unknown emoji in hex stream: ", "", ch))

\* the loop over the codepoints of the hex stream: the nibbles collected, or
\* the result returned from inside the loop
RECURSIVE HexScan(_, _, _)
HexScan(emoji_text, i, nibbles) ==
  IF i > Len(emoji_text) THEN [returned |-> FALSE, nibbles |-> nibbles, res |-> UnknownHex(<<>>, <<>>)]
  ELSE LET ch == <<emoji_text[i]>>
       IN IF ch \in DOMAIN REV_HEX_MAP
            THEN HexScan(emoji_text, i + 1, Append(nibbles, REV_HEX_MAP[ch]))
          ELSE IF IsSpace(ch[1]) THEN HexScan(emoji_text, i + 1, nibbles)
          ELSE [returned |-> TRUE, nibbles |-> nibbles, res |-> UnknownHex(ch, nibbles)]

OddLengthUnlessSingle(hexstr) == Len(hexstr) % 2 # 0 /\ Len(hexstr) > 1

\* len(hexstr) % 2 != 0
OddLength(hexstr) == Len(hexstr) % 2 # 0

decode_hex_emoji(emoji_text) ==
  LET scan == HexScan(emoji_text, 1, <<>>)
  IN IF scan.returned THEN scan.res
     ELSE LET hexstr == scan.nibbles
          IN IF OddLength(hexstr)
               THEN CodecResult(FALSE, <<>>,
                                Message("Odd-length hex after mapping (corrupt input).", "", <<>>))
             ELSE LET raw == BytesFromHex(hexstr)
                  IN IF raw.exc # "" THEN Except(raw.exc)
                     ELSE LET txt == BytesDecode(raw.val)
                          IN IF txt.exc # ""
                               THEN Except(txt.exc)
                             ELSE CodecResult(TRUE, txt.val, NoMessage)

encode_b64_emoji(text) ==
  LET raw == StrEncode(text)
  IN IF raw.exc # "" THEN Except(raw.exc)
     ELSE LET b64 == B64Encode(raw.val)
          IN CodecResult(TRUE,
                         Join([ k \in 1..Len(b64) |->
                                  IF b64[k] = EqualsSign THEN PADDING_EMOJI
                                  ELSE B64_TO_EMOJI[b64[k]] ]),
                         NoMessage)

B64MatchAlwaysTwo(emoji_text, i) ==
  IF i < Len(emoji_text)
  THEN [ch |-> SubSeq(emoji_text, i, i + 1), next |-> i + 2]
  ELSE [ch |-> <<emoji_text[i]>>, next |-> i + 1]

\* the unit the base-64 loop takes at position i (the two-codepoint window
\* when it is a symbol, else one codepoint) and the position after it
B64Match(emoji_text, i) ==
  IF i < Len(emoji_text)
  THEN LET two == SubSeq(emoji_text, i, i + 1)
       IN IF two \in DOMAIN EMOJI_TO_B64 \/ two = PADDING_EMOJI
            THEN [ch |-> two, next |-> i + 2]
          ELSE [ch |-> <<emoji_text[i]>>, next |-> i + 1]
  ELSE [ch |-> <<emoji_text[i]>>, next |-> i + 1]

\* ch.isspace() : every codepoint of a non-empty string is whitespace
StrIsSpace(ch) == ch # <<>> /\ \A k \in 1..Len(ch) : IsSpace(ch[k])

UnknownB64(ch) ==
  CodecResult(FALSE, <<>>, Message("Unknown emoji in base64 stream: ", "", ch))

\* the while loop of the base-64 decoder: the base-64 characters collected,
\* or the result returned from inside the loop
RECURSIVE B64Scan(_, _, _)
B64Scan(emoji_text, i, chars) ==
  IF i > Len(emoji_text) THEN [returned |-> FALSE, chars |-> chars, res |-> UnknownB64(<<>>)]
  ELSE LET m == B64Match(emoji_text, i)
       IN IF StrIsSpace(m.ch) THEN B64Scan(emoji_text, m.next, chars)
          ELSE IF m.ch = PADDING_EMOJI THEN B64Scan(emoji_text, m.next, Append(chars, EqualsSign))
          ELSE IF m.ch \in DOMAIN EMOJI_TO_B64
            THEN B64Scan(emoji_text, m.next, Append(chars, EMOJI_TO_B64[m.ch]))
          ELSE [returned |-> TRUE, chars |-> chars, res |-> UnknownB64(m.ch)]

decode_b64_emoji(emoji_text) ==
  LET scan == B64Scan(emoji_text, 1, <<>>)
  IN IF scan.returned THEN scan.res
     ELSE LET raw == B64Decode(scan.chars)
          IN IF raw.exc # ""
               THEN ExceptB64(raw.exc)
             ELSE LET txt == BytesDecode(raw.val)
                  IN IF txt.exc # ""
                       THEN ExceptB64(txt.exc)
                     ELSE CodecResult(TRUE, txt.val, NoMessage)

looks_like_hex_emoji(s) ==
  /\ \A k \in 1..Len(s) : <<s[k]>> \in DOMAIN REV_HEX_MAP \/ IsSpace(s[k])
  /\ \E k \in 1..Len(s) : <<s[k]>> \in DOMAIN REV_HEX_MAP

looks_like_b64_emoji(s) ==
  LET emoji_set == { BASE64_EMOJI_64[i] : i \in 1..64 } \cup {PADDING_EMOJI}
  IN /\ \A k \in 1..Len(s) : <<s[k]>> \in emoji_set \/ IsSpace(s[k])
     /\ \E k \in 1..Len(s) : <<s[k]>> \in emoji_set

(***************************************************************************)
(* Inputs.                                                                 *)
(***************************************************************************)
\* H, i, 1, e-acute, euro sign, U+1F600 and a lone surrogate (not encodable)
TextChars == {72, 105, 49, 233, 8364, 128512, 55296}

SeqsUpTo(S, n) == UNION { [1..k -> S] : k \in 0..n }

Texts == SeqsUpTo(TextChars, MaxTextLen)

\* nibble symbols 4 and 8 (also base-64 symbols E and I), a base-64-only
\* symbol, the two-codepoint symbol and its first codepoint alone, the
\* padding symbol, a space, the letter A
StreamUnits ==
  { HEX_EMOJI_16[5], HEX_EMOJI_16[9], BASE64_EMOJI_64[36], BASE64_EMOJI_64[50],
    <<BASE64_EMOJI_64[50][1]>>, PADDING_EMOJI, <<32>>, <<65>> }

Streams == { Join(u) : u \in SeqsUpTo(StreamUnits, MaxStreamLen) }

\* line feed, ideographic space (the space is a unit of the streams)
Whitespace == {10, 12288}

InsertAt(s, p, c) == SubSeq(s, 1, p) \o <<c>> \o SubSeq(s, p + 1, Len(s))

RemoveAt(s, k) == SubSeq(s, 1, k - 1) \o SubSeq(s, k + 1, Len(s))

\* the symbols of an alphabet that are longer than one codepoint
LongSymbols == { BASE64_EMOJI_64[i] : i \in { j \in 1..64 : Len(BASE64_EMOJI_64[j]) > 1 } }

\* position p (0..Len(s)) of s does not fall inside a two-codepoint symbol
Between(s, p) == ~(p >= 1 /\ p < Len(s) /\ SubSeq(s, p, p + 1) \in LongSymbols)

(***************************************************************************)
(* State of the codec calls.                                               *)
(*   op, arg, res : the codec function called last, its argument, its      *)
(*                  outcome                                                *)
(*   src          : the text whose encoding arg was made from              *)
(*   how          : where arg came from ("input", "payload", "corrupted")  *)
(*   ins          : whitespace codepoints inserted into arg so far         *)
(* State of a process started by main().                                   *)
(*   proc         : "start", "cli" (run_cli has returned) or "gui"         *)
(*   args, data   : the parsed flags and the text read by run_cli          *)
(*   exit, out, err : its exit status, what it wrote, its error message    *)
(*   first        : the run_cli invocation whose output this one reads     *)
(*   mode, direction, input, output, status : the GUI's variables, text    *)
(*                  panes and status label                                 *)
(*   swaps        : presses of Swap so far                                 *)
(*   called       : the codec function the last handler called             *)
(*   sniffed      : the handler that last consulted the detectors and the  *)
(*                  text it gave them                                      *)
(***************************************************************************)
VARIABLES op, arg, res, src, how, ins,
          proc, args, data, exit, out, err, first,
          mode, direction, input, output, status, swaps, called, sniffed

codecVars == <<op, arg, res, src, how, ins>>

cliVars == <<args, data, exit, out, err, first>>

guiVars == <<mode, direction, input, output, status, swaps>>

appVars == <<proc, args, data, exit, out, err, first,
             mode, direction, input, output, status, swaps, called, sniffed>>

vars == <<op, arg, res, src, how, ins,
          proc, args, data, exit, out, err, first,
          mode, direction, input, output, status, swaps, called, sniffed>>

NotCalled == [kind |-> "none", ok |-> FALSE, data |-> <<>>, error |-> NoMessage]

NoArgs == [encode |-> FALSE, decode |-> FALSE, mode |-> "hex"]

NoRun == [ran |-> FALSE, args |-> NoArgs, data |-> <<>>]

NotSniffed == [by |-> "none", text |-> <<>>]

Status(text, error) == [text |-> text, error |-> error]

\* nothing has been called, no process has been started
CodecIdle ==
  /\ op = "none"
  /\ res = NotCalled
  /\ src = <<>>
  /\ how = "input"
  /\ ins = 0

AppIdle ==
  /\ proc = "start"
  /\ args = NoArgs /\ data = <<>> /\ exit = -1 /\ out = <<>> /\ err = NoMessage
  /\ first = NoRun
  /\ mode = "hex" /\ direction = "encode"
  /\ input = <<>> /\ output = <<>>
  /\ status = Status("", NoMessage)
  /\ swaps = 0
  /\ called = "none"
  /\ sniffed = NotSniffed

Decoder(name, s) == IF name = "decode_hex_emoji" THEN decode_hex_emoji(s) ELSE decode_b64_emoji(s)

Init ==
  /\ CodecIdle
  /\ arg \in Texts \cup Streams
  /\ AppIdle

EncodeHex ==
  /\ op = "none" /\ arg \in Texts
  /\ op' = "encode_hex_emoji"
  /\ res' = encode_hex_emoji(arg)
  /\ UNCHANGED <<arg, src, how, ins>>
  /\ UNCHANGED appVars

EncodeB64 ==
  /\ op = "none" /\ arg \in Texts
  /\ op' = "encode_b64_emoji"
  /\ res' = encode_b64_emoji(arg)
  /\ UNCHANGED <<arg, src, how, ins>>
  /\ UNCHANGED appVars

DecodeHex ==
  /\ op = "none" /\ arg \in Streams
  /\ op' = "decode_hex_emoji"
  /\ res' = decode_hex_emoji(arg)
  /\ UNCHANGED <<arg, src, how, ins>>
  /\ UNCHANGED appVars

DecodeB64 ==
  /\ op = "none" /\ arg \in Streams
  /\ op' = "decode_b64_emoji"
  /\ res' = decode_b64_emoji(arg)
  /\ UNCHANGED <<arg, src, how, ins>>
  /\ UNCHANGED appVars

\* the payload of a successful encode is handed to the decoder of its scheme
DecodePayload ==
  /\ op \in {"encode_hex_emoji", "encode_b64_emoji"} /\ res.ok
  /\ op' = (IF op = "encode_hex_emoji" THEN "decode_hex_emoji" ELSE "decode_b64_emoji")
  /\ src' = arg
  /\ arg' = res.data
  /\ how' = "payload"
  /\ res' = Decoder(op', arg')
  /\ UNCHANGED ins
  /\ UNCHANGED appVars

\* one symbol of a nibble payload is lost before it is decoded
DecodeCorrupted ==
  /\ op = "encode_hex_emoji" /\ res.ok
  /\ \E k \in 1..Len(res.data) :
       /\ arg' = RemoveAt(res.data, k)
       /\ res' = decode_hex_emoji(arg')
  /\ op' = "decode_hex_emoji"
  /\ src' = arg
  /\ how' = "corrupted"
  /\ UNCHANGED ins
  /\ UNCHANGED appVars

\* a stream that decoded is decoded again with one more whitespace codepoint
\* put before, after or between its symbols
InsertWhitespace ==
  /\ op \in {"decode_hex_emoji", "decode_b64_emoji"}
  /\ how = "input" /\ res.ok /\ ins < MaxInsert
  /\ \E p \in 0..Len(arg), w \in Whitespace :
       /\ op = "decode_b64_emoji" => Between(arg, p)
       /\ arg' = InsertAt(arg, p, w)
       /\ res' = Decoder(op, arg')
  /\ ins' = ins + 1
  /\ UNCHANGED <<op, src, how>>
  /\ UNCHANGED appVars

Next ==
  \/ EncodeHex
  \/ EncodeB64
  \/ DecodeHex
  \/ DecodeB64
  \/ DecodePayload
  \/ DecodeCorrupted
  \/ InsertWhitespace

Spec == Init /\ [][Next]_vars

(***************************************************************************)
(* Properties of the codec calls (specification Spec).                     *)
(***************************************************************************)
Encodable(text) == \A k \in 1..Len(text) : ~IsSurrogate(text[k])

Success(text) == CodecResult(TRUE, text, NoMessage)

HexSymbols == { HEX_EMOJI_16[i] : i \in 1..16 }

B64Symbols == { BASE64_EMOJI_64[i] : i \in 1..64 } \cup {PADDING_EMOJI}

\* the symbols of the alphabet a decoder reads
ActiveSymbols(name) == IF name = "decode_hex_emoji" THEN HexSymbols ELSE B64Symbols

\* s is made of symbols of the alphabet and whitespace only
RECURSIVE ValidStream(_, _)
ValidStream(s, symbols) ==
  \/ s = <<>>
  \/ /\ IsSpace(s[1]) \/ <<s[1]>> \in symbols
     /\ ValidStream(Tail(s), symbols)
  \/ /\ Len(s) >= 2
     /\ SubSeq(s, 1, 2) \in symbols
     /\ ValidStream(SubSeq(s, 3, Len(s)), symbols)

\* the codepoint at p is in neither alphabet and is no whitespace, and all
\* that precedes and follows it is symbols of the active alphabet and whitespace
OnlyStray(s, p, symbols) ==
  /\ ~IsSpace(s[p])
  /\ <<s[p]>> \notin HexSymbols \cup B64Symbols
  /\ ValidStream(SubSeq(s, 1, p - 1), symbols)
  /\ ValidStream(SubSeq(s, p + 1, Len(s)), symbols)

UnknownOf(name, ch) ==
  CodecResult(FALSE, <<>>,
              Message(IF name = "decode_hex_emoji" THEN "Unknown emoji in hex stream: "
                      ELSE "Unknown emoji in base64 stream: ", "", ch))

OddLengthFailure ==
  CodecResult(FALSE, <<>>, Message("Odd-length hex after mapping (corrupt input).", "", <<>>))

NibbleCount(s) == Cardinality({ k \in 1..Len(s) : <<s[k]>> \in HexSymbols })

\* C1: base-64 round trip. Every encodable text is encoded successfully by
\* encode_b64_emoji, and decode_b64_emoji of the payload succeeds with exactly
\* that text; the glyphs the 64-symbol table repeats do not break this.
\* (Stated for texts without lone surrogates, so that a violation is one of
\* the round trip and not of the encoding step.)
C1_B64RoundTrip ==
  /\ (op = "encode_b64_emoji" /\ Encodable(arg)) => res.ok
  /\ (op = "decode_b64_emoji" /\ how = "payload") => res = Success(src)

\* C2: nibble round trip. Every text representable in UTF-8 is encoded
\* successfully by encode_hex_emoji, and decode_hex_emoji of the payload
\* succeeds with exactly that text.
C2_HexRoundTrip ==
  /\ (op = "encode_hex_emoji" /\ Encodable(arg)) => res.ok
  /\ (op = "decode_hex_emoji" /\ how = "payload") => res = Success(src)

C2_Witness ==
  /\ op = "decode_hex_emoji" /\ how = "payload"
  /\ src = <<72, 233, 128512>>
  /\ Len(arg) = 14
  /\ res.ok

\* C4: failure envelope. Each of the four codec functions returns a
\* CodecResult and never raises; a failure carries the empty payload however
\* many symbols were processed before it, and a success carries no message.
C4_FailureEnvelope ==
  op # "none" =>
    /\ res.kind = "return"
    /\ ~res.ok => res.data = <<>>
    /\ res.ok => res.error = NoMessage

C4_Witness ==
  /\ op = "decode_hex_emoji"
  /\ Len(arg) = 3
  /\ <<arg[1]>> \in HexSymbols /\ <<arg[2]>> \in HexSymbols /\ arg[3] = 65
  /\ res = UnknownOf(op, <<65>>)

\* C5: whitespace insensitivity. When a stream decodes successfully, the
\* stream with one more whitespace codepoint at its start, at its end or
\* between two symbols decodes to the same result, for both decoders.
C5_WhitespaceInsensitive ==
  [][(ins' = ins + 1 /\ res.ok) => res' = res]_vars

C5_Witness ==
  /\ op = "decode_b64_emoji" /\ ins = 1
  /\ res.ok /\ res.data # <<>>
  /\ \E p \in 1..(Len(arg) - 3) :
       /\ SubSeq(arg, p, p + 1) \in LongSymbols
       /\ arg[p + 2] \in Whitespace
       /\ <<arg[p + 3]>> = PADDING_EMOJI

\* C6: corruption of a nibble stream. A payload of encode_hex_emoji with one
\* symbol removed has an odd number of nibble symbols and decode_hex_emoji
\* fails on it with the odd-length message; decode_hex_emoji never succeeds
\* on a stream with an odd number of nibble symbols.
C6_OddNibbleFails ==
  /\ (op = "decode_hex_emoji" /\ how = "corrupted") =>
        /\ NibbleCount(arg) % 2 = 1
        /\ res = OddLengthFailure
  /\ (op = "decode_hex_emoji" /\ NibbleCount(arg) % 2 = 1) => ~res.ok

C6_Witness ==
  /\ op = "decode_hex_emoji" /\ how = "corrupted"
  /\ src = <<72>>
  /\ arg = HEX_EMOJI_16[9]
  /\ res = OddLengthFailure

C8_NibbleShape ==
  (op = "encode_hex_emoji" /\ res.ok) =>
    LET b == Utf8Bytes(arg, 1)
    IN /\ Len(res.data) = 2 * Len(b)
       /\ \A k \in 1..Len(b) :
            /\ <<res.data[2 * k - 1]>> = HEX_EMOJI_16[(b[k] \div 16) + 1]
            /\ <<res.data[2 * k]>> = HEX_EMOJI_16[(b[k] % 16) + 1]

C8_Witness ==
  /\ op = "encode_hex_emoji"
  /\ arg = <<72, 105>>
  /\ res = Success(HEX_EMOJI_16[5] \o HEX_EMOJI_16[9] \o HEX_EMOJI_16[7] \o HEX_EMOJI_16[10])

\* C9: encoder/detector consistency. The payload of encode_b64_emoji of a
\* non-empty text satisfies looks_like_b64_emoji and the payload of
\* encode_hex_emoji of a non-empty text satisfies looks_like_hex_emoji.
C9_EncoderDetector ==
  /\ (op = "encode_b64_emoji" /\ res.ok /\ arg # <<>>) => looks_like_b64_emoji(res.data)
  /\ (op = "encode_hex_emoji" /\ res.ok /\ arg # <<>>) => looks_like_hex_emoji(res.data)

(***************************************************************************)
(* The front ends: main(), run_cli() and the GUI's handlers.               *)
(* copy_output, load_input, save_output and show_help act on the           *)
(* clipboard, on files and on dialogs; they call no codec function and no  *)
(* detector and are not part of this state machine.                        *)
(***************************************************************************)
\* H, D, A, nibble symbols 4 and 8, a base-64-only symbol, a space
AppChars == {72, 68, 65, HEX_EMOJI_16[5][1], HEX_EMOJI_16[9][1], BASE64_EMOJI_64[36][1], 32}

AppInputs == SeqsUpTo(AppChars, MaxAppLen)

\* what the clipboard may hold: a text, a nibble stream (also a base-64
\* stream), a base-64-only stream, a stream of neither alphabet
Clipboard ==
  { <<72>>,
    HEX_EMOJI_16[5] \o HEX_EMOJI_16[9],
    HEX_EMOJI_16[5] \o BASE64_EMOJI_64[36] \o PADDING_EMOJI \o PADDING_EMOJI,
    HEX_EMOJI_16[5] \o <<65>> }

\* --encode and --decode are mutually exclusive, --mode is hex or b64
CliArgs ==
  { a \in [encode : BOOLEAN, decode : BOOLEAN, mode : {"hex", "b64"}] :
      ~(a.encode /\ a.decode) }

\* s.rstrip("\n")
RECURSIVE RStripNewline(_)
RStripNewline(s) ==
  IF s # <<>> /\ s[Len(s)] = 10 THEN RStripNewline(SubSeq(s, 1, Len(s) - 1)) ELSE s

RECURSIVE LStrip(_)
LStrip(s) == IF s # <<>> /\ IsSpace(s[1]) THEN LStrip(Tail(s)) ELSE s

RECURSIVE RStrip(_)
RStrip(s) == IF s # <<>> /\ IsSpace(s[Len(s)]) THEN RStrip(SubSeq(s, 1, Len(s) - 1)) ELSE s

\* s.strip()
Strip(s) == RStrip(LStrip(s))

\* widget.get("1.0", "end") : the content of a Text widget and its final newline
TkGet(content) == content \o <<10>>

Call(name, text) ==
  IF name = "encode_hex_emoji" THEN encode_hex_emoji(text)
  ELSE IF name = "encode_b64_emoji" THEN encode_b64_emoji(text)
  ELSE IF name = "decode_hex_emoji" THEN decode_hex_emoji(text)
  ELSE decode_b64_emoji(text)

\* the codec function run_cli calls for flags a on text d
CliChoice(a, d) ==
  IF a.encode THEN (IF a.mode = "hex" THEN "encode_hex_emoji" ELSE "encode_b64_emoji")
  ELSE IF a.mode = "hex" /\ looks_like_b64_emoji(d) THEN "decode_b64_emoji"
  ELSE IF a.mode = "b64" /\ looks_like_hex_emoji(d) THEN "decode_hex_emoji"
  ELSE IF a.mode = "hex" THEN "decode_hex_emoji" ELSE "decode_b64_emoji"

\* EmojiCodecApp(root) : the GUI as constructed
GuiConstructed ==
  /\ proc' = "gui"
  /\ mode' = "hex" /\ direction' = "encode"
  /\ input' = <<>> /\ output' = <<>>
  /\ status' = Status("Ready.", NoMessage)
  /\ swaps' = 0

\* launch_gui() : the GUI starts, or Tkinter is missing and the process exits 1
LaunchGui ==
  \/ GuiConstructed /\ exit' = exit
  \/ /\ proc' = "cli" /\ exit' = 1
     /\ UNCHANGED guiVars

\* run_cli(argv) with flags a and text d read from the input
run_cli(a, d) ==
  /\ args' = a
  /\ data' = d
  /\ IF ~(a.encode \/ a.decode)
       THEN /\ LaunchGui
            /\ called' = "none" /\ sniffed' = NotSniffed
            /\ UNCHANGED <<out, err>>
       ELSE LET name == CliChoice(a, d)
                r == Call(name, d)
            IN /\ called' = name
               /\ sniffed' = (IF a.decode THEN [by |-> "run_cli", text |-> d] ELSE NotSniffed)
               /\ proc' = "cli"
               /\ IF ~r.ok
                    THEN exit' = 2 /\ err' = r.error /\ out' = <<>>
                    ELSE exit' = 0 /\ err' = NoMessage /\ out' = r.data
               /\ UNCHANGED guiVars

\* main() with arguments: run_cli on a text of the input file or stdin
MainCli ==
  /\ proc = "start"
  /\ \E a \in CliArgs, d \in AppInputs : run_cli(a, d)
  /\ UNCHANGED first
  /\ UNCHANGED codecVars

\* main() without arguments
MainGui ==
  /\ proc = "start"
  /\ LaunchGui
  /\ UNCHANGED <<args, data, out, err, first, called, sniffed>>
  /\ UNCHANGED codecVars

\* a second process runs --decode on what a successful run_cli wrote
CliDecodeOutput ==
  /\ proc = "cli" /\ exit = 0 /\ ~first.ran
  /\ (args.encode \/ args.decode)
  /\ first' = [ran |-> TRUE, args |-> args, data |-> data]
  /\ \E a \in CliArgs : a.decode /\ run_cli(a, out)
  /\ UNCHANGED codecVars

\* the body of run() with self.mode = m and self.direction = d
GuiRun(m, d) ==
  LET text == RStripNewline(TkGet(input))
      name == IF d = "encode"
                THEN (IF m = "hex" THEN "encode_hex_emoji" ELSE "encode_b64_emoji")
              ELSE (IF m = "hex" THEN "decode_hex_emoji" ELSE "decode_b64_emoji")
      r == Call(name, text)
  IN IF text = <<>>
       THEN /\ status' = Status("Input is empty.", NoMessage)
            /\ output' = <<>>
            /\ called' = "none"
     ELSE /\ called' = name
          /\ IF r.ok
               THEN output' = r.data /\ status' = Status("Success.", NoMessage)
             ELSE output' = <<>> /\ status' = Status("Error: ", r.error)

Run ==
  /\ proc = "gui"
  /\ Len(input) <= MaxPaneLen
  /\ GuiRun(mode, direction)
  /\ sniffed' = NotSniffed
  /\ UNCHANGED <<proc, mode, direction, input, swaps>>
  /\ UNCHANGED cliVars
  /\ UNCHANGED codecVars

auto_detect_decode ==
  /\ proc = "gui"
  /\ Len(input) <= MaxPaneLen
  /\ LET text == Strip(TkGet(input))
     IN IF text = <<>>
          THEN /\ status' = Status("Nothing to detect.", NoMessage)
               /\ called' = "none" /\ sniffed' = NotSniffed
               /\ UNCHANGED <<mode, direction, output>>
        ELSE /\ sniffed' = [by |-> "auto_detect_decode", text |-> text]
             /\ IF looks_like_hex_emoji(text)
                  THEN mode' = "hex" /\ direction' = "decode" /\ GuiRun("hex", "decode")
                ELSE IF looks_like_b64_emoji(text)
                  THEN mode' = "b64" /\ direction' = "decode" /\ GuiRun("b64", "decode")
                ELSE /\ status' = Status("Cannot detect encoded emoji stream.", NoMessage)
                     /\ called' = "none"
                     /\ UNCHANGED <<mode, direction, output>>
  /\ UNCHANGED <<proc, input, swaps>>
  /\ UNCHANGED cliVars
  /\ UNCHANGED codecVars

swap ==
  /\ proc = "gui" /\ swaps < MaxSwaps
  /\ input' = TkGet(output)
  /\ output' = TkGet(input)
  /\ status' = Status("Swapped Input/Output.", NoMessage)
  /\ swaps' = swaps + 1
  /\ called' = "none" /\ sniffed' = NotSniffed
  /\ UNCHANGED <<proc, mode, direction>>
  /\ UNCHANGED cliVars
  /\ UNCHANGED codecVars

\* Paste: the clipboard's text replaces the input, or the clipboard cannot
\* be read and the input stays deleted
paste_input ==
  /\ proc = "gui"
  /\ \/ \E c \in Clipboard :
          /\ input' = c
          /\ status' = Status("Pasted from clipboard.", NoMessage)
     \/ /\ input' = <<>>
        /\ status' = Status("Clipboard empty or unavailable.", NoMessage)
  /\ called' = "none" /\ sniffed' = NotSniffed
  /\ UNCHANGED <<proc, mode, direction, output, swaps>>
  /\ UNCHANGED cliVars
  /\ UNCHANGED codecVars

\* the Clear button
ClearInput ==
  /\ proc = "gui"
  /\ input # <<>>
  /\ input' = <<>>
  /\ called' = "none" /\ sniffed' = NotSniffed
  /\ UNCHANGED <<proc, mode, direction, output, status, swaps>>
  /\ UNCHANGED cliVars
  /\ UNCHANGED codecVars

\* the Mode and Direction radio buttons
SelectMode ==
  /\ proc = "gui"
  /\ \E m \in {"hex", "b64"} : m # mode /\ mode' = m
  /\ called' = "none" /\ sniffed' = NotSniffed
  /\ UNCHANGED <<proc, direction, input, output, status, swaps>>
  /\ UNCHANGED cliVars
  /\ UNCHANGED codecVars

SelectDirection ==
  /\ proc = "gui"
  /\ \E d \in {"encode", "decode"} : d # direction /\ direction' = d
  /\ called' = "none" /\ sniffed' = NotSniffed
  /\ UNCHANGED <<proc, mode, input, output, status, swaps>>
  /\ UNCHANGED cliVars
  /\ UNCHANGED codecVars

InitApp ==
  /\ CodecIdle
  /\ arg = <<>>
  /\ AppIdle

NextApp ==
  \/ MainCli
  \/ MainGui
  \/ CliDecodeOutput
  \/ Run
  \/ auto_detect_decode
  \/ swap
  \/ paste_input
  \/ ClearInput
  \/ SelectMode
  \/ SelectDirection

SpecApp == InitApp /\ [][NextApp]_vars

(***************************************************************************)
(* Properties of the front ends (specification SpecApp).                   *)
(***************************************************************************)
\* C3: detector priority. Whenever a handler has consulted the detectors
\* (auto_detect_decode of the GUI, the decode branch of run_cli) on a text
\* that satisfies looks_like_hex_emoji, the decoder it called is
\* decode_hex_emoji, also when the text satisfies looks_like_b64_emoji; the
\* base-64 decoder is called only for a text that is no nibble stream.
C3_DetectorPriority ==
  sniffed.by # "none" =>
    /\ looks_like_hex_emoji(sniffed.text) => called = "decode_hex_emoji"
    /\ (called = "decode_b64_emoji"
          /\ (sniffed.by = "auto_detect_decode" \/ args.mode = "hex"))
         => ~looks_like_hex_emoji(sniffed.text)

\* C10: command line round trip in nibble mode. When run_cli --decode
\* --mode hex reads what a successful run_cli --encode --mode hex wrote for
\* a text, it calls decode_hex_emoji, exits 0 and writes exactly that text.
C10_CliHexRoundTrip ==
  ( /\ proc = "cli" /\ first.ran
    /\ first.args.encode /\ first.args.mode = "hex"
    /\ args.decode /\ args.mode = "hex" )
  => /\ called = "decode_hex_emoji"
     /\ exit = 0
     /\ out = first.data

====
